---- MODULE Spec2Model ----
(***************************************************************************)
(* The static-site generator scripts/generate-articles.js as a state       *)
(* machine: one run of main(), one action per awaited step.                *)
(*                                                                         *)
(* Text is modelled character by character: a string is a sequence of      *)
(* one-character strings, so escaping, splitting and placeholder           *)
(* substitution are computed the way the JavaScript computes them.         *)
(***************************************************************************)
EXTENDS Integers, Sequences, FiniteSets, TLC

(***************************************************************************)
(* Bounds of the model                                                     *)
(***************************************************************************)
\* longest articles body the API returns
MaxArticles == 2
\* longest tips body the API returns
MaxTips == 1
\* the clock read by new Date() takes the values 0..MaxClock
MaxClock == 0

(***************************************************************************)
(* Strings                                                                 *)
(***************************************************************************)
Min(S) == CHOOSE p \in S : \A q \in S : p <= q
Max(S) == CHOOSE p \in S : \A q \in S : p >= q

\* s.slice(i - 1): the suffix of s that starts at position i (1-based)
From(s, i) == SubSeq(s, i, Len(s))

\* s.startsWith(pat, i - 1)
MatchAt(s, pat, i) ==
    /\ i >= 1
    /\ i + Len(pat) - 1 <= Len(s)
    /\ \A k \in 1..Len(pat) : s[i + k - 1] = pat[k]

\* s.indexOf(pat, i - 1) + 1: the first position >= i where pat occurs, 0 if none
IndexOfFrom(s, pat, i) ==
    LET hits == {p \in i..(Len(s) - Len(pat) + 1) : MatchAt(s, pat, p)}
    IN  IF hits = {} THEN 0 ELSE Min(hits)

Includes(s, pat) == IndexOfFrom(s, pat, 1) # 0

RECURSIVE Join(_, _)
\* parts.join(sep)
Join(parts, sep) ==
    IF parts = <<>> THEN <<>>
    ELSE IF Len(parts) = 1 THEN parts[1]
    ELSE parts[1] \o sep \o Join(Tail(parts), sep)

RECURSIVE SelectTruthy(_)
\* list.filter(Boolean) on a list of strings: the empty string is dropped
SelectTruthy(list) ==
    IF list = <<>> THEN <<>>
    ELSE IF Head(list) = <<>> THEN SelectTruthy(Tail(list))
    ELSE <<Head(list)>> \o SelectTruthy(Tail(list))

RECURSIVE Dedup(_, _)
\* Array.from(new Set(list)): first occurrences, in order
Dedup(list, seen) ==
    IF list = <<>> THEN <<>>
    ELSE IF Head(list) \in seen THEN Dedup(Tail(list), seen)
    ELSE <<Head(list)>> \o Dedup(Tail(list), seen \cup {Head(list)})

\* the grave accent U+0060, which a TLA+ string cannot hold
Backtick == "U+0060"
\* the middle dot U+00B7 of the article card's byline
MiddleDot == "U+00B7"

\* the characters the regular expressions' \s matches
Whitespace == {" ", "\n", "\t", "\r"}

RECURSIVE SubstituteFrom(_, _, _, _, _)
SubstituteFrom(matched, before, after, replacement, i) ==
    LET p == IndexOfFrom(replacement, <<"$">>, i)
    IN  IF p = 0 THEN From(replacement, i)
        ELSE IF p < Len(replacement) /\ replacement[p + 1] \in {"$", "&", Backtick, "'"}
        THEN SubSeq(replacement, i, p - 1)
             \o (CASE replacement[p + 1] = "$" -> <<"$">>
                   [] replacement[p + 1] = "&" -> matched
                   [] replacement[p + 1] = Backtick -> before
                   [] replacement[p + 1] = "'" -> after)
             \o SubstituteFrom(matched, before, after, replacement, p + 2)
        ELSE SubSeq(replacement, i, p)
             \o SubstituteFrom(matched, before, after, replacement, p + 1)

\* ECMAScript GetSubstitution for a string pattern (no captures): in the
\* replacement text $$ is a dollar, $& the matched text, $` the text before the
\* match and $' the text after it; every other character stands for itself
GetSubstitution(matched, before, after, replacement) ==
    SubstituteFrom(matched, before, after, replacement, 1)

RECURSIVE ReplaceFrom(_, _, _, _)
ReplaceFrom(s, pat, replacement, i) ==
    LET p == IndexOfFrom(s, pat, i)
    IN  IF p = 0 THEN From(s, i)
        ELSE SubSeq(s, i, p - 1)
             \o GetSubstitution(pat, SubSeq(s, 1, p - 1), From(s, p + Len(pat)), replacement)
             \o ReplaceFrom(s, pat, replacement, p + Len(pat))

\* s.replaceAll(pat, replacement) with a non-empty string pattern
replaceAll(s, pat, replacement) == ReplaceFrom(s, pat, replacement, 1)

RECURSIVE CollapseWhitespace(_)
\* s.replace(/\s+/g, ' ')
CollapseWhitespace(s) ==
    IF s = <<>> THEN <<>>
    ELSE IF Head(s) \in Whitespace
    THEN LET rest == CollapseWhitespace(Tail(s))
         IN  IF Tail(s) # <<>> /\ s[2] \in Whitespace THEN rest ELSE <<" ">> \o rest
    ELSE <<Head(s)>> \o CollapseWhitespace(Tail(s))

\* s.trim()
trim(s) ==
    LET ink == {i \in 1..Len(s) : s[i] \notin Whitespace}
    IN  IF ink = {} THEN <<>> ELSE SubSeq(s, Min(ink), Max(ink))

\* s.slice(0, n)
SliceTo(s, n) == SubSeq(s, 1, IF Len(s) < n THEN Len(s) ELSE n)

(***************************************************************************)
(* escapeHtml and textToHtml                                               *)
(***************************************************************************)
\* escapeHtml(s); null and undefined are modelled as the empty string,
\* which escapes to the empty string as they do
escapeHtml(s) ==
    replaceAll(replaceAll(replaceAll(replaceAll(s,
        <<"&">>, <<"&","a","m","p",";">>), <<"<">>, <<"&","l","t",";">>), <<">">>, <<"&","g","t",";">>), <<"\"">>, <<"&","q","u","o","t",";">>)

\* the end of the first match of /\n\s*\n/ that starts at position p, 0 if it
\* does not match there: \s* is greedy and backtracks to the last newline of
\* the whitespace run that begins at p
BlankLineEnd(s, p) ==
    IF p > Len(s) \/ s[p] # "\n" THEN 0
    ELSE LET ends == {q \in (p + 1)..Len(s) :
                         /\ s[q] = "\n"
                         /\ \A k \in p..q : s[k] \in Whitespace}
         IN  IF ends = {} THEN 0 ELSE Max(ends)

RECURSIVE SplitBlankLines(_)
\* s.split(/\n\s*\n/)
SplitBlankLines(s) ==
    LET starts == {p \in 1..Len(s) : BlankLineEnd(s, p) # 0}
    IN  IF starts = {} THEN <<s>>
        ELSE LET p == Min(starts)
             IN  <<SubSeq(s, 1, p - 1)>> \o SplitBlankLines(From(s, BlankLineEnd(s, p) + 1))

RECURSIVE MapTrim(_)
MapTrim(list) ==
    IF list = <<>> THEN <<>> ELSE <<trim(Head(list))>> \o MapTrim(Tail(list))

RECURSIVE Paragraphs(_)
\* parts.map(p => `<p>${escapeHtml(p).replace(/\n/g, '<br/>')}</p>`)
Paragraphs(parts) ==
    IF parts = <<>> THEN <<>>
    ELSE <<<<"<","p",">">> \o replaceAll(escapeHtml(Head(parts)), <<"\n">>, <<"<","b","r","/",">">>) \o <<"<","/","p",">">>>>
         \o Paragraphs(Tail(parts))

\* textToHtml(text)
textToHtml(text) ==
    IF text = <<>> THEN <<>>
    ELSE Join(Paragraphs(SelectTruthy(MapTrim(SplitBlankLines(text)))), <<"\n">>)

(***************************************************************************)
(* Dates.  A Date object is represented by the text toISOString() gives    *)
(* for it, and the invalid date by the text JavaScript prints for it.  The *)
(* parser knows the two formats the inputs of the model use: the date-only *)
(* form YYYY-MM-DD and the instant form YYYY-MM-DDTHH:MM:SS.mmmZ; the      *)
(* build machine's time zone is taken to be UTC.                           *)
(***************************************************************************)
Digits == {"0", "1", "2", "3", "4", "5", "6", "7", "8", "9"}

DigitValue(c) ==
    CASE c = "0" -> 0 [] c = "1" -> 1 [] c = "2" -> 2 [] c = "3" -> 3 [] c = "4" -> 4
      [] c = "5" -> 5 [] c = "6" -> 6 [] c = "7" -> 7 [] c = "8" -> 8 [] c = "9" -> 9

DigitChar(n) ==
    CASE n = 0 -> "0" [] n = 1 -> "1" [] n = 2 -> "2" [] n = 3 -> "3" [] n = 4 -> "4"
      [] n = 5 -> "5" [] n = 6 -> "6" [] n = 7 -> "7" [] n = 8 -> "8" [] n = 9 -> "9"

RECURSIVE NumberText(_)
\* `${n}` for a non-negative integer n
NumberText(n) ==
    IF n < 10 THEN <<DigitChar(n)>> ELSE NumberText(n \div 10) \o <<DigitChar(n % 10)>>

TwoDigits(s, i) == 10 * DigitValue(s[i]) + DigitValue(s[i + 1])

IsDateOnly(s) ==
    /\ Len(s) = 10
    /\ s[5] = "-" /\ s[8] = "-"
    /\ \A i \in {1, 2, 3, 4, 6, 7, 9, 10} : s[i] \in Digits
    /\ TwoDigits(s, 6) \in 1..12
    /\ TwoDigits(s, 9) \in 1..31

IsInstant(s) ==
    /\ Len(s) = 24
    /\ IsDateOnly(SubSeq(s, 1, 10))
    /\ s[11] = "T" /\ s[14] = ":" /\ s[17] = ":" /\ s[20] = "." /\ s[24] = "Z"
    /\ \A i \in {12, 13, 15, 16, 18, 19, 21, 22, 23} : s[i] \in Digits
    /\ TwoDigits(s, 12) <= 23 /\ TwoDigits(s, 15) <= 59 /\ TwoDigits(s, 18) <= 59

InvalidDate == <<"I","n","v","a","l","i","d"," ","D","a","t","e">>

\* new Date(dateStr)
NewDate(dateStr) ==
    IF IsDateOnly(dateStr) THEN dateStr \o <<"T","0","0",":","0","0",":","0","0",".","0","0","0","Z">>
    ELSE IF IsInstant(dateStr) THEN dateStr
    ELSE InvalidDate

\* new Date().toISOString() when the clock reads t: the clock counts days
NowISO(t) == <<"2","0","2","6","-","0","1","-","0">> \o <<DigitChar(t + 1)>> \o <<"T","0","0",":","0","0",":","0","0",".","0","0","0","Z">>

\* d.toLocaleDateString('en-GB'): DD/MM/YYYY, and no exception for the invalid date
toLocaleDateString(d) ==
    IF d = InvalidDate THEN InvalidDate
    ELSE SubSeq(d, 9, 10) \o <<"/">> \o SubSeq(d, 6, 7) \o <<"/">> \o SubSeq(d, 1, 4)

\* formatISO(dateStr): toISOString() throws a RangeError on the invalid date,
\* and the catch returns the current time
formatISO(dateStr, now) ==
    IF NewDate(dateStr) = InvalidDate THEN NowISO(now) ELSE NewDate(dateStr)

\* prettyDateISO(dateStr): nothing in the try block throws, so the catch
\* (return dateStr) is never taken
prettyDateISO(dateStr) == toLocaleDateString(NewDate(dateStr))

(***************************************************************************)
(* excerptText and youtubeIdFromUrl                                        *)
(***************************************************************************)
\* s.replace(/\s+\S*$/, ''): cut at the start of the last whitespace run
DropLastWord(s) ==
    LET cuts == {p \in 1..Len(s) :
                    /\ s[p] \in Whitespace
                    /\ \A k \in p..Len(s) :
                          s[k] \in Whitespace => \A j \in p..k : s[j] \in Whitespace}
    IN  IF cuts = {} THEN s ELSE SubSeq(s, 1, Min(cuts) - 1)

\* excerptText(text, max)
excerptText(text, max) ==
    IF text = <<>> THEN <<>>
    ELSE LET t == trim(CollapseWhitespace(text))
         IN  IF Len(t) <= max THEN t
             ELSE DropLastWord(SliceTo(t, max)) \o <<".",".",".">>

\* the character class [A-Za-z0-9_-]
IdChars ==
    Digits \cup {"_", "-"} \cup
    {"a", "b", "c", "d", "e", "f", "g", "h", "i", "j", "k", "l", "m",
     "n", "o", "p", "q", "r", "s", "t", "u", "v", "w", "x", "y", "z",
     "A", "B", "C", "D", "E", "F", "G", "H", "I", "J", "K", "L", "M",
     "N", "O", "P", "Q", "R", "S", "T", "U", "V", "W", "X", "Y", "Z"}

\* the length of the longest run of IdChars that starts at position i
IdRun(s, i) ==
    LET lens == {n \in 0..(Len(s) - i + 1) : \A k \in i..(i + n - 1) : s[k] \in IdChars}
    IN  Max(lens)

\* the alternatives of (?:v=|\/embed\/|youtu\.be\/|\/v\/)
YoutubePrefixes == {<<"v","=">>, <<"/","e","m","b","e","d","/">>, <<"y","o","u","t","u",".","b","e","/">>, <<"/","v","/">>}

\* youtubeIdFromUrl(url): the id captured by the leftmost match of
\* /(?:v=|\/embed\/|youtu\.be\/|\/v\/)([A-Za-z0-9_-]{6,})/, or null (the empty string here)
youtubeIdFromUrl(url) ==
    LET starts == {p \in 1..Len(url) :
                      \E pre \in YoutubePrefixes :
                          MatchAt(url, pre, p) /\ IdRun(url, p + Len(pre)) >= 6}
    IN  IF starts = {} THEN <<>>
        ELSE LET p == Min(starts)
                 pre == CHOOSE x \in YoutubePrefixes :
                            MatchAt(url, x, p) /\ IdRun(url, p + Len(x)) >= 6
             IN  SubSeq(url, p + Len(pre), p + Len(pre) + IdRun(url, p + Len(pre)) - 1)

RECURSIVE SelectIdChars(_)
\* s.replace(/[^a-z0-9_-]/gi, '')
SelectIdChars(s) ==
    IF s = <<>> THEN <<>>
    ELSE IF Head(s) \in IdChars THEN <<Head(s)>> \o SelectIdChars(Tail(s))
    ELSE SelectIdChars(Tail(s))

(***************************************************************************)
(* Paths.  A path is the sequence of its segments below the working        *)
(* directory; path.join normalises "", "." and "..".                       *)
(***************************************************************************)
RECURSIVE SplitSlash(_)
SplitSlash(s) ==
    LET p == IndexOfFrom(s, <<"/">>, 1)
    IN  IF p = 0 THEN <<s>> ELSE <<SubSeq(s, 1, p - 1)>> \o SplitSlash(From(s, p + 1))

RECURSIVE Normalize(_, _)
Normalize(done, segments) ==
    IF segments = <<>> THEN done
    ELSE LET seg == Head(segments)
         IN  IF seg = <<>> \/ seg = <<".">> THEN Normalize(done, Tail(segments))
             ELSE IF seg = <<".",".">> /\ done # <<>> /\ done[Len(done)] # <<".",".">>
             THEN Normalize(SubSeq(done, 1, Len(done) - 1), Tail(segments))
             ELSE Normalize(Append(done, seg), Tail(segments))

\* path.join(base, name) for a normalised base
PathJoin(base, name) == Normalize(base, SplitSlash(name))

\* OUT_DIR, ARTICLES_DIR, TIPS_DIR
OUT_DIR == <<<<"p","u","b","l","i","c">>>>
ARTICLES_DIR == PathJoin(PathJoin(OUT_DIR, <<"k","n","o","w","l","e","d","g","e">>), <<"a","r","t","i","c","l","e","s">>)
TIPS_DIR == PathJoin(PathJoin(OUT_DIR, <<"k","n","o","w","l","e","d","g","e">>), <<"t","i","p","s">>)

(***************************************************************************)
(* Rendering one article (the body of the for loop of main)                *)
(***************************************************************************)
baseUrl == <<"h","t","t","p","s",":","/","/","y","o","g","a","s","t","r","a","a",".","c","o","m">>
siteImage == baseUrl \o <<"/","a","s","s","e","t","s","/","y","o","g","a","s","t","r","a","a",".","j","p","g">>

\* a.slug || `article-${a.id}`
SlugOf(a) == IF a.slug # <<>> THEN a.slug ELSE <<"a","r","t","i","c","l","e","-">> \o NumberText(a.id)

\* x || y || z on strings
FirstTruthy(x, y, z) == IF x # <<>> THEN x ELSE IF y # <<>> THEN y ELSE z

RECURSIVE Names(_)
\* list.map(c => c.name)
Names(list) == IF list = <<>> THEN <<>> ELSE <<Head(list).name>> \o Names(Tail(list))

RECURSIVE MapEscape(_)
\* list.map(escapeHtml)
MapEscape(list) ==
    IF list = <<>> THEN <<>> ELSE <<escapeHtml(Head(list))>> \o MapEscape(Tail(list))

urlPathDir(slug) == <<"/","k","n","o","w","l","e","d","g","e","/","a","r","t","i","c","l","e","s","/">> \o slug \o <<"/">>
urlPathFile(slug) == <<"/","k","n","o","w","l","e","d","g","e","/","a","r","t","i","c","l","e","s","/">> \o slug \o <<".","h","t","m","l">>

\* an indicator button that carries the active mark whatever its index
IndicatorAlwaysActive(cid, idx) ==
    <<"<","b","u","t","t","o","n"," ","t","y","p","e","=","\"","b","u","t","t","o","n","\""," ","d","a","t","a","-","b","s","-","t","a","r","g","e","t","=","\"","#">> \o cid
    \o <<"\""," ","d","a","t","a","-","b","s","-","s","l","i","d","e","-","t","o","=","\"">> \o NumberText(idx) \o <<"\""," ">>
    \o <<"c","l","a","s","s","=","\"","a","c","t","i","v","e","\""," ","a","r","i","a","-","c","u","r","r","e","n","t","=","\"","t","r","u","e","\"">>
    \o <<" ","a","r","i","a","-","l","a","b","e","l","=","\"","S","l","i","d","e"," ">> \o NumberText(idx + 1) \o <<"\"",">","<","/","b","u","t","t","o","n",">">>

\* the indicator button of image idx (0-based)
Indicator(cid, idx) ==
    <<"<","b","u","t","t","o","n"," ","t","y","p","e","=","\"","b","u","t","t","o","n","\""," ","d","a","t","a","-","b","s","-","t","a","r","g","e","t","=","\"","#">> \o cid
    \o <<"\""," ","d","a","t","a","-","b","s","-","s","l","i","d","e","-","t","o","=","\"">> \o NumberText(idx) \o <<"\""," ">>
    \o (IF idx = 0 THEN <<"c","l","a","s","s","=","\"","a","c","t","i","v","e","\""," ","a","r","i","a","-","c","u","r","r","e","n","t","=","\"","t","r","u","e","\"">> ELSE <<>>)
    \o <<" ","a","r","i","a","-","l","a","b","e","l","=","\"","S","l","i","d","e"," ">> \o NumberText(idx + 1) \o <<"\"",">","<","/","b","u","t","t","o","n",">">>

\* the slide of image idx (0-based)
CarouselItem(im, title, idx) ==
    <<"<","d","i","v"," ","c","l","a","s","s","=","\"","c","a","r","o","u","s","e","l","-","i","t","e","m"," ">> \o (IF idx = 0 THEN <<"a","c","t","i","v","e">> ELSE <<>>)
    \o <<"\"",">","<","i","m","g"," ","s","r","c","=","\"">> \o escapeHtml(im.url)
    \o <<"\""," ","c","l","a","s","s","=","\"","d","-","b","l","o","c","k"," ","w","-","1","0","0","\""," ","a","l","t","=","\"">> \o escapeHtml(title) \o <<"\"",">","<","/","d","i","v",">">>

\* imagesCarouselHtml
imagesCarouselHtml(imgs, slug, title) ==
    IF Len(imgs) = 1
    THEN <<"<","d","i","v"," ","c","l","a","s","s","=","\"","m","b","-","3"," ","a","r","t","i","c","l","e","-","c","a","r","o","u","s","e","l","\"",">","<","i","m","g"," ","s","r","c","=","\"">> \o escapeHtml(imgs[1].url)
         \o <<"\""," ","a","l","t","=","\"">> \o escapeHtml(title) \o <<"\""," ","c","l","a","s","s","=","\"","i","m","g","-","f","l","u","i","d"," ","r","o","u","n","d","e","d","\""," ","/",">","<","/","d","i","v",">">>
    ELSE IF Len(imgs) > 1
    THEN LET cid == <<"c","a","r","o","u","s","e","l","-">> \o SelectIdChars(slug)
             indicators == Join([k \in 1..Len(imgs) |-> Indicator(cid, k - 1)], <<"\n">>)
             items == Join([k \in 1..Len(imgs) |-> CarouselItem(imgs[k], title, k - 1)], <<"\n">>)
         IN  <<"\n","<","d","i","v"," ","i","d","=","\"">> \o cid
             \o <<"\""," ","c","l","a","s","s","=","\"","c","a","r","o","u","s","e","l"," ","s","l","i","d","e"," ","m","b","-","3"," ","a","r","t","i","c","l","e","-","c","a","r","o","u","s","e","l","\""," ","d","a","t","a","-","b","s","-","r","i","d","e","=","\"","c","a","r","o","u","s","e","l","\"",">","\n"," "," ","<","d","i","v"," ","c","l","a","s","s","=","\"","c","a","r","o","u","s","e","l","-","i","n","d","i","c","a","t","o","r","s","\"",">","\n"," "," "," "," ">>
             \o indicators
             \o <<"\n"," "," ","<","/","d","i","v",">","\n"," "," ","<","d","i","v"," ","c","l","a","s","s","=","\"","c","a","r","o","u","s","e","l","-","i","n","n","e","r","\"",">","\n"," "," "," "," ">>
             \o items
             \o <<"\n"," "," ","<","/","d","i","v",">","\n"," "," ","<","b","u","t","t","o","n"," ","c","l","a","s","s","=","\"","c","a","r","o","u","s","e","l","-","c","o","n","t","r","o","l","-","p","r","e","v","\""," ","t","y","p","e","=","\"","b","u","t","t","o","n","\""," ","d","a","t","a","-","b","s","-","t","a","r","g","e","t","=","\"","#">>
             \o cid
             \o <<"\""," ","d","a","t","a","-","b","s","-","s","l","i","d","e","=","\"","p","r","e","v","\"",">","\n"," "," "," "," ","<","s","p","a","n"," ","c","l","a","s","s","=","\"","c","a","r","o","u","s","e","l","-","c","o","n","t","r","o","l","-","p","r","e","v","-","i","c","o","n","\""," ","a","r","i","a","-","h","i","d","d","e","n","=","\"","t","r","u","e","\"",">","<","/","s","p","a","n",">","\n"," "," "," "," ","<","s","p","a","n"," ","c","l","a","s","s","=","\"","v","i","s","u","a","l","l","y","-","h","i","d","d","e","n","\"",">","P","r","e","v","i","o","u","s","<","/","s","p","a","n",">","\n"," "," ","<","/","b","u","t","t","o","n",">","\n"," "," ","<","b","u","t","t","o","n"," ","c","l","a","s","s","=","\"","c","a","r","o","u","s","e","l","-","c","o","n","t","r","o","l","-","n","e","x","t","\""," ","t","y","p","e","=","\"","b","u","t","t","o","n","\""," ","d","a","t","a","-","b","s","-","t","a","r","g","e","t","=","\"","#">>
             \o cid
             \o <<"\""," ","d","a","t","a","-","b","s","-","s","l","i","d","e","=","\"","n","e","x","t","\"",">","\n"," "," "," "," ","<","s","p","a","n"," ","c","l","a","s","s","=","\"","c","a","r","o","u","s","e","l","-","c","o","n","t","r","o","l","-","n","e","x","t","-","i","c","o","n","\""," ","a","r","i","a","-","h","i","d","d","e","n","=","\"","t","r","u","e","\"",">","<","/","s","p","a","n",">","\n"," "," "," "," ","<","s","p","a","n"," ","c","l","a","s","s","=","\"","v","i","s","u","a","l","l","y","-","h","i","d","d","e","n","\"",">","N","e","x","t","<","/","s","p","a","n",">","\n"," "," ","<","/","b","u","t","t","o","n",">","\n","<","/","d","i","v",">">>
    ELSE <<>>

\* videoEmbedHtml
videoEmbedHtml(videoUrl, title) ==
    LET videoId == youtubeIdFromUrl(videoUrl)
    IN  IF videoId = <<>> THEN <<>>
        ELSE <<"\n","<","d","i","v"," ","c","l","a","s","s","=","\"","a","r","t","i","c","l","e","-","v","i","d","e","o"," ","r","a","t","i","o"," ","r","a","t","i","o","-","1","6","x","9","\"",">","\n"," "," ","<","i","f","r","a","m","e"," ","s","r","c","=","\"","h","t","t","p","s",":","/","/","w","w","w",".","y","o","u","t","u","b","e",".","c","o","m","/","e","m","b","e","d","/">>
             \o escapeHtml(videoId) \o <<"\""," ","t","i","t","l","e","=","\"">> \o escapeHtml(title)
             \o <<"\""," ","a","l","l","o","w","=","\"","a","c","c","e","l","e","r","o","m","e","t","e","r",";"," ","a","u","t","o","p","l","a","y",";"," ","c","l","i","p","b","o","a","r","d","-","w","r","i","t","e",";"," ","e","n","c","r","y","p","t","e","d","-","m","e","d","i","a",";"," ","g","y","r","o","s","c","o","p","e",";"," ","p","i","c","t","u","r","e","-","i","n","-","p","i","c","t","u","r","e","\""," ","a","l","l","o","w","f","u","l","l","s","c","r","e","e","n",">","<","/","i","f","r","a","m","e",">","\n","<","/","d","i","v",">">>

\* the title shown for an article: a.title || 'Article'
TitleOf(a) == IF a.title # <<>> THEN a.title ELSE <<"A","r","t","i","c","l","e">>

\* catNames
CatNames(a) == SelectTruthy(Names(a.categories))

\* categoriesStr: the names are escaped here, and the string is escaped
\* again where it is substituted for {{CATEGORIES}}
categoriesStr(a) ==
    IF CatNames(a) # <<>> THEN Join(MapEscape(CatNames(a)), <<","," ">>) ELSE <<"G","e","n","e","r","a","l">>

\* the placeholders of the article template and their values, in the order
\* of the replaceAll calls
Placeholders(a, now) ==
    LET slug == SlugOf(a)
        title == TitleOf(a)
        description == SliceTo(CollapseWhitespace(a.content), 150)
        created == formatISO(FirstTruthy(a.createdAt, a.updatedAt, NowISO(now)), now)
        modified == formatISO(FirstTruthy(a.updatedAt, a.createdAt, NowISO(now)), now)
        datePretty == prettyDateISO(FirstTruthy(a.createdAt, a.updatedAt, NowISO(now)))
        canonicalUrl == baseUrl \o urlPathDir(slug)
        hcNames == SelectTruthy(Names(a.healthConditions))
        keywords == Join(Dedup(CatNames(a) \o hcNames, {}), <<","," ">>)
    IN  << <<<<"{","{","T","I","T","L","E","}","}">>, escapeHtml(title)>>,
           <<<<"{","{","M","E","T","A","_","D","E","S","C","}","}">>, escapeHtml(description)>>,
           <<<<"{","{","K","E","Y","W","O","R","D","S","}","}">>, escapeHtml(keywords)>>,
           <<<<"{","{","U","R","L","}","}">>, canonicalUrl>>,
           <<<<"{","{","I","M","A","G","E","}","}">>, siteImage>>,
           <<<<"{","{","D","A","T","E","}","}">>, created>>,
           <<<<"{","{","D","A","T","E","_","M","O","D","I","F","I","E","D","}","}">>, modified>>,
           <<<<"{","{","D","A","T","E","_","P","R","E","T","T","Y","}","}">>, escapeHtml(datePretty)>>,
           <<<<"{","{","C","O","N","T","E","N","T","}","}">>, textToHtml(a.content)>>,
           <<<<"{","{","A","U","T","H","O","R","}","}">>, escapeHtml(IF a.author # <<>> THEN a.author ELSE <<"Y","o","g","a","s","t","r","a","a"," ","T","e","a","m">>)>>,
           <<<<"{","{","C","A","T","E","G","O","R","I","E","S","}","}">>, escapeHtml(categoriesStr(a))>>,
           <<<<"{","{","S","L","U","G","}","}">>, escapeHtml(slug)>>,
           <<<<"{","{","I","M","A","G","E","S","_","C","A","R","O","U","S","E","L","}","}">>, imagesCarouselHtml(a.images, slug, title)>>,
           <<<<"{","{","V","I","D","E","O","_","E","M","B","E","D","}","}">>, videoEmbedHtml(a.videoUrl, title)>> >>

RECURSIVE ChainReplace(_, _)
\* tpl.replaceAll(k1, v1).replaceAll(k2, v2)...: each call works on the
\* result of the one before it
ChainReplace(text, pairs) ==
    IF pairs = <<>> THEN text
    ELSE ChainReplace(replaceAll(text, Head(pairs)[1], Head(pairs)[2]), Tail(pairs))

\* html: the article page
ArticleHtml(articleTpl, a, now) == ChainReplace(articleTpl, Placeholders(a, now))

\* the record pushed on articlePages
ArticlePage(a, now) ==
    [slug |-> SlugOf(a),
     title |-> TitleOf(a),
     urlDir |-> urlPathDir(SlugOf(a)),
     urlFile |-> urlPathFile(SlugOf(a)),
     date |-> formatISO(FirstTruthy(a.updatedAt, a.createdAt, NowISO(now)), now),
     firstImage |-> IF a.images # <<>> THEN a.images[1].url ELSE <<>>,
     foundData |-> a]

(***************************************************************************)
(* The list pages, the sitemap, robots.txt and CNAME                       *)
(***************************************************************************)
\* articles.find(a => (a.slug || `article-${a.id}`) === slug): the FIRST
\* article with that slug (every slug looked up comes from an article of the list)
FindBySlug(list, slug) ==
    list[Min({k \in 1..Len(list) : SlugOf(list[k]) = slug})]

RECURSIVE Badges(_)
\* categories.map(c => `<span ...>${escapeHtml(c.name)}</span>`).join('')
Badges(categories) ==
    IF categories = <<>> THEN <<>>
    ELSE <<"<","s","p","a","n"," ","c","l","a","s","s","=","\"","b","a","d","g","e"," ","r","o","u","n","d","e","d","-","p","i","l","l"," ","b","g","-","s","e","c","o","n","d","a","r","y"," ","m","e","-","1"," ","m","b","-","1","\"",">">>
         \o escapeHtml(Head(categories).name) \o <<"<","/","s","p","a","n",">">> \o Badges(Tail(categories))

\* the card of page p, filled from the article `found`
ArticleCard(p, found) ==
    LET datePretty == IF found.createdAt # <<>> THEN prettyDateISO(found.createdAt) ELSE <<>>
        excerpt == excerptText(found.content, 240)
        badges == Badges(found.categories)
        author == escapeHtml(IF found.author # <<>> THEN found.author ELSE <<"Y","o","g","a","s","t","r","a","a"," ","T","e","a","m">>)
        firstImg == IF found.images # <<>> THEN found.images[1].url ELSE <<>>
        imgHtml == IF firstImg # <<>>
                   THEN <<"<","i","m","g"," ","s","r","c","=","\"">> \o escapeHtml(firstImg) \o <<"\""," ","a","l","t","=","\"">>
                        \o escapeHtml(p.title) \o <<"\""," ","c","l","a","s","s","=","\"","c","a","r","d","-","i","m","g","-","t","o","p","\"",">">>
                   ELSE <<>>
    IN  <<"\n"," "," ","<","d","i","v"," ","c","l","a","s","s","=","\"","c","o","l","-","1","2"," ","c","o","l","-","m","d","-","6"," ","c","o","l","-","l","g","-","4","\"",">","\n"," "," "," "," ","<","d","i","v"," ","c","l","a","s","s","=","\"","c","a","r","d"," ","h","-","1","0","0","\"",">","\n"," "," "," "," "," "," ">>
        \o imgHtml
        \o <<"\n"," "," "," "," "," "," ","<","d","i","v"," ","c","l","a","s","s","=","\"","c","a","r","d","-","b","o","d","y"," ","d","-","f","l","e","x"," ","f","l","e","x","-","c","o","l","u","m","n","\"",">","\n"," "," "," "," "," "," "," "," ","<","h","5"," ","c","l","a","s","s","=","\"","c","a","r","d","-","t","i","t","l","e","\"",">">>
        \o escapeHtml(p.title)
        \o <<"<","/","h","5",">","\n"," "," "," "," "," "," "," "," ","<","p"," ","c","l","a","s","s","=","\"","c","a","r","d","-","t","e","x","t"," ","t","e","x","t","-","m","u","t","e","d"," ","s","m","a","l","l"," ","f","s","t","-","i","t","a","l","i","c","\"",">","B","y"," ">>
        \o author \o <<" ",MiddleDot," ">> \o escapeHtml(datePretty)
        \o <<"<","/","p",">","\n"," "," "," "," "," "," "," "," ","<","p"," ","c","l","a","s","s","=","\"","c","a","r","d","-","t","e","x","t"," ","f","l","e","x","-","g","r","o","w","-","1","\"",">">>
        \o escapeHtml(excerpt)
        \o <<"<","/","p",">","\n"," "," "," "," "," "," "," "," ">>
        \o (IF badges # <<>>
            THEN <<"<","d","i","v"," ","c","l","a","s","s","=","\"","d","-","f","l","e","x"," ","f","l","e","x","-","w","r","a","p"," ","g","a","p","-","1"," ","m","t","-","1","\"",">">> \o badges \o <<"<","/","d","i","v",">">>
            ELSE <<>>)
        \o <<"\n"," "," "," "," "," "," "," "," ","<","a"," ","h","r","e","f","=","\"">> \o p.urlDir
        \o <<"\""," ","c","l","a","s","s","=","\"","b","t","n"," ","b","t","n","-","s","m"," ","b","t","n","-","p","r","i","m","a","r","y"," ","m","t","-","3","\"",">","<","b",">","R","e","a","d"," ","a","r","t","i","c","l","e","<","/","b",">","<","/","a",">","\n"," "," "," "," "," "," ","<","/","d","i","v",">","\n"," "," "," "," ","<","/","d","i","v",">","\n"," "," ","<","/","d","i","v",">","\n"," "," "," "," "," "," "," "," ">>

\* articleRowsHtml: one card per page, each filled from the article that
\* the lookup by slug finds
articleRowsHtml(pages, list) ==
    Join([k \in 1..Len(pages) |-> ArticleCard(pages[k], FindBySlug(list, pages[k].slug))],
         <<"\n">>)

\* articlesListHtml
articlesListHtml(listTpl, pages, list) ==
    replaceAll(listTpl, <<"{","{","A","R","T","I","C","L","E","_","R","O","W","S","}","}">>, articleRowsHtml(pages, list))

\* the list-group item of one tip
TipRow(t) ==
    LET cat == t.category
        datePretty == IF t.createdAt # <<>> THEN prettyDateISO(t.createdAt) ELSE <<>>
    IN  <<"\n"," "," ","<","d","i","v"," ","c","l","a","s","s","=","\"","l","i","s","t","-","g","r","o","u","p","-","i","t","e","m"," ","d","-","f","l","e","x"," ","j","u","s","t","i","f","y","-","c","o","n","t","e","n","t","-","b","e","t","w","e","e","n"," ","a","l","i","g","n","-","i","t","e","m","s","-","s","t","a","r","t","\"",">","\n"," "," "," "," ","<","d","i","v",">","\n"," "," "," "," "," "," ","<","d","i","v"," ","c","l","a","s","s","=","\"","m","b","-","1","\"",">">>
        \o escapeHtml(t.content) \o <<"<","/","d","i","v",">","\n"," "," "," "," "," "," ">>
        \o (IF cat # <<>>
            THEN <<"<","s","m","a","l","l"," ","c","l","a","s","s","=","\"","t","e","x","t","-","m","u","t","e","d","\"",">">> \o escapeHtml(cat) \o <<"<","/","s","m","a","l","l",">">>
            ELSE <<>>)
        \o <<"\n"," "," "," "," ","<","/","d","i","v",">","\n"," "," "," "," ","<","s","m","a","l","l"," ","c","l","a","s","s","=","\"","t","e","x","t","-","m","u","t","e","d"," ","m","s","-","3","\"",">">>
        \o escapeHtml(datePretty) \o <<"<","/","s","m","a","l","l",">","\n"," "," ","<","/","d","i","v",">">>

\* tipRowsHtml
tipRowsHtml(list) == Join([k \in 1..Len(list) |-> TipRow(list[k])], <<"\n">>)

\* tipsHtml
tipsHtml(tipsListTpl, list) == replaceAll(tipsListTpl, <<"{","{","T","I","P","_","R","O","W","S","}","}">>, tipRowsHtml(list))

\* the locations of the fixed entries of the sitemap
StaticLocs ==
    <<<<"/">>, <<"/","c","o","n","t","a","c","t","U","s","/">>, <<"/","p","r","i","v","a","c","y","P","o","l","i","c","y","/">>, <<"/","d","i","s","c","l","a","i","m","e","r","P","o","l","i","c","y","/">>,
      <<"/","r","e","f","u","n","d","P","o","l","i","c","y","/">>, <<"/","t","e","r","m","s","C","o","n","d","i","t","i","o","n","s","/">>, <<"/","k","n","o","w","l","e","d","g","e","/","a","r","t","i","c","l","e","s","/">>, <<"/","k","n","o","w","l","e","d","g","e","/","t","i","p","s","/">>>>

RECURSIVE PageUrls(_, _, _)
\* the two entries pushed for each page: their lastmod is the updatedAt of the
\* article that the lookup by slug finds, or the current time
PageUrls(pages, list, now) ==
    IF pages = <<>> THEN <<>>
    ELSE LET p == Head(pages)
             found == FindBySlug(list, p.slug)
             lastmod == IF found.updatedAt # <<>> THEN formatISO(found.updatedAt, now)
                        ELSE NowISO(now)
         IN  <<[loc |-> p.urlDir, lastmod |-> lastmod],
               [loc |-> p.urlFile, lastmod |-> lastmod]>>
             \o PageUrls(Tail(pages), list, now)

\* urls
SitemapUrls(pages, list, now) ==
    [k \in 1..Len(StaticLocs) |-> [loc |-> StaticLocs[k], lastmod |-> NowISO(now)]]
    \o PageUrls(pages, list, now)

\* sitemap
SitemapXml(urlList) ==
    <<"<","?","x","m","l"," ","v","e","r","s","i","o","n","=","\"","1",".","0","\""," ","e","n","c","o","d","i","n","g","=","\"","U","T","F","-","8","\"","?",">","\n","<","u","r","l","s","e","t"," ","x","m","l","n","s","=","\"","h","t","t","p",":","/","/","w","w","w",".","s","i","t","e","m","a","p","s",".","o","r","g","/","s","c","h","e","m","a","s","/","s","i","t","e","m","a","p","/","0",".","9","\"",">","\n">>
    \o Join([k \in 1..Len(urlList) |->
                <<"<","u","r","l",">","<","l","o","c",">">> \o baseUrl \o urlList[k].loc \o <<"<","/","l","o","c",">","<","l","a","s","t","m","o","d",">">>
                \o urlList[k].lastmod \o <<"<","/","l","a","s","t","m","o","d",">","<","/","u","r","l",">">>], <<"\n">>)
    \o <<"\n","<","/","u","r","l","s","e","t",">","\n">>

\* robots
RobotsTxt == <<"U","s","e","r","-","a","g","e","n","t",":"," ","*","\n","A","l","l","o","w",":"," ","/","\n","S","i","t","e","m","a","p",":"," ">> \o baseUrl \o <<"/","s","i","t","e","m","a","p",".","x","m","l","\n">>

CnameTxt == <<"y","o","g","a","s","t","r","a","a",".","c","o","m","\n">>

(***************************************************************************)
(* The inputs of a run: what the API answers and what templates/ holds     *)
(***************************************************************************)
API_BASE == <<"h","t","t","p","s",":","/","/","y","o","g","a","s","t","r","a","-","b","a","c","k","e","n","d","-","2","d","0","8","4","c","c","0","c","f","9","e",".","h","e","r","o","k","u","a","p","p",".","c","o","m">>

\* Absent, null and empty fields are all the empty string: the code tests
\* them only for truthiness.
Article1 ==
    [id |-> 1, slug |-> <<"y","o","g","a">>, title |-> <<"A","&","B">>, content |-> <<"x","<","y","\n","z","\n","\n","w">>,
     author |-> <<>>, createdAt |-> <<"2","0","2","4","-","0","1","-","0","2">>, updatedAt |-> <<"2","0","2","4","-","0","3","-","0","4">>,
     categories |-> <<[name |-> <<"C","&","D">>]>>,
     healthConditions |-> <<[name |-> <<"C","&","D">>], [name |-> <<"h","c">>]>>,
     images |-> <<>>, videoUrl |-> <<>>]

Article2 ==
    [id |-> 2, slug |-> <<>>, title |-> <<"{","{","A","U","T","H","O","R","}","}">>, content |-> <<"$","&"," ","\"","q","\"">>,
     author |-> <<"Q",">">>, createdAt |-> <<>>, updatedAt |-> <<>>,
     categories |-> <<>>, healthConditions |-> <<>>,
     images |-> <<[url |-> <<"/","i","/","1",".","j","p","g">>]>>, videoUrl |-> <<"h","t","t","p","s",":","/","/","y","o","u","t","u",".","b","e","/","a","b","c","d","e","f">>]

Article3 ==
    [id |-> 3, slug |-> <<"y","o","g","a">>, title |-> <<"T","3">>, content |-> <<"c","3">>,
     author |-> <<"Z">>, createdAt |-> <<"s","o","o","n">>, updatedAt |-> <<"2","0","2","3","-","0","5","-","0","6">>,
     categories |-> <<[name |-> <<"K">>]>>, healthConditions |-> <<>>,
     images |-> <<[url |-> <<"/","i","/","2",".","j","p","g">>], [url |-> <<"/","i","/","3",".","j","p","g">>]>>,
     videoUrl |-> <<"h","t","t","p","s",":","/","/","x",".","t","e","s","t","/","n","o","n","e">>]

Article4 ==
    [id |-> 4, slug |-> <<"i","n","d","e","x">>, title |-> <<>>, content |-> <<>>,
     author |-> <<>>, createdAt |-> <<>>, updatedAt |-> <<"s","o","o","n">>,
     categories |-> <<>>, healthConditions |-> <<>>,
     images |-> <<>>, videoUrl |-> <<>>]

ArticlePalette == {Article1, Article2, Article3, Article4}

Tip1 == [content |-> <<"a","<","b"," ","&"," ","c">>, category |-> <<"C","\"","1">>, createdAt |-> <<"2","0","2","4","-","0","1","-","0","2">>]

TipPalette == {Tip1}

\* all sequences over S of length at most n
SeqUpTo(S, n) == UNION {[1..k -> S] : k \in 0..n}

\* A parsed response body: a JSON array with its items, or a JSON value that
\* is no array (an object, null)
ArrayBody(items) == [kind |-> "array", items |-> items]
ObjectBody == [kind |-> "object", items |-> <<>>]
NullBody == [kind |-> "null", items |-> <<>>]
\* a body that is no JSON at all: res.json() rejects
NotJson == [kind |-> "notjson", items |-> <<>>]

ArticleBodies ==
    {ArrayBody(s) : s \in SeqUpTo(ArticlePalette, MaxArticles)} \cup {ObjectBody, NullBody, NotJson}
TipBodies ==
    {ArrayBody(s) : s \in SeqUpTo(TipPalette, MaxTips)} \cup {ObjectBody, NullBody, NotJson}

\* Array.isArray(x)
IsArray(body) == body.kind = "array"

\* The HTTP responses: res.ok is status in 200..299; only a successful
\* response's body is read
Responses(bodies) ==
    {[status |-> 200, body |-> b] : b \in bodies}
    \cup {[status |-> s, body |-> NullBody] : s \in {404, 500}}

ResponseOk(res) == res.status \in 200..299

\* The candidate lists of main
ArticleTplNames == <<<<"a","r","t","i","c","l","e",".","h","t","m","l">>>>
ListTplNames == <<<<"a","r","t","i","c","l","e","s","-","l","i","s","t",".","h","t","m","l">>, <<"a","r","t","i","c","l","e","-","l","i","s","t",".","h","t","m","l">>, <<"a","r","t","i","c","l","e","s","-","l","i","s","t",".","t","p","l",".","h","t","m","l">>>>
TipsTplNames == <<<<"t","i","p","s","-","l","i","s","t",".","h","t","m","l">>, <<"t","i","p","s","-","l","i","s","t",".","t","p","l",".","h","t","m","l">>>>

\* Contents of the template files
ArticleTplText ==
    <<"<","h","1",">","{","{","T","I","T","L","E","}","}","<","/","h","1",">","{","{","C","O","N","T","E","N","T","}","}","<","i",">","{","{","A","U","T","H","O","R","}","}","<","/","i",">","<","b",">","{","{","C","A","T","E","G","O","R","I","E","S","}","}","<","/","b",">","{","{","O","T","H","E","R","}","}","{","{","D","A","T","E","}","}","|","{","{","D","A","T","E","_","M","O","D","I","F","I","E","D","}","}","|","{","{","D","A","T","E","_","P","R","E","T","T","Y","}","}","|","{","{","U","R","L","}","}","|","{","{","S","L","U","G","}","}","|","{","{","M","E","T","A","_","D","E","S","C","}","}","|","{","{","K","E","Y","W","O","R","D","S","}","}","|","{","{","I","M","A","G","E","}","}","{","{","I","M","A","G","E","S","_","C","A","R","O","U","S","E","L","}","}","{","{","V","I","D","E","O","_","E","M","B","E","D","}","}">>
ArticleTplPlain == <<"<","p",">","s","t","a","t","i","c"," ","{","{","O","T","H","E","R","}","}","<","/","p",">">>

TemplateText(name) ==
    CASE name = ListTplNames[1] -> <<"<","u","l"," ","i","d","=","\"","1","\"",">","{","{","A","R","T","I","C","L","E","_","R","O","W","S","}","}","<","/","u","l",">">>
      [] name = ListTplNames[2] -> <<"<","u","l"," ","i","d","=","\"","2","\"",">","{","{","A","R","T","I","C","L","E","_","R","O","W","S","}","}","<","/","u","l",">">>
      [] name = ListTplNames[3] -> <<"<","u","l"," ","i","d","=","\"","3","\"",">","{","{","A","R","T","I","C","L","E","_","R","O","W","S","}","}","<","/","u","l",">">>
      [] name = TipsTplNames[1] -> <<"<","o","l"," ","i","d","=","\"","1","\"",">","{","{","T","I","P","_","R","O","W","S","}","}","<","/","o","l",">">>
      [] name = TipsTplNames[2] -> <<"<","o","l"," ","i","d","=","\"","2","\"",">","{","{","T","I","P","_","R","O","W","S","}","}","<","/","o","l",">">>

AllTplNames == {ArticleTplNames[1]} \cup {ListTplNames[k] : k \in 1..3} \cup {TipsTplNames[k] : k \in 1..2}

\* templates/ with the files `present` readable and article.html holding `articleText`
TemplateDir(present, articleText) ==
    [n \in present |-> IF n = ArticleTplNames[1] THEN articleText ELSE TemplateText(n)]

\* The states of templates/ a run starts from
TemplateDirs ==
    {TemplateDir(AllTplNames, t) : t \in {ArticleTplText, ArticleTplPlain}}
    \cup {TemplateDir(AllTplNames \ gone, ArticleTplText) :
            gone \in {{ListTplNames[1], TipsTplNames[1]}, {ListTplNames[1], ListTplNames[2]},
                      {ListTplNames[1], ListTplNames[2], ListTplNames[3]},
                      {ListTplNames[1], TipsTplNames[1], TipsTplNames[2]},
                      {ArticleTplNames[1]}}}

(***************************************************************************)
(* The run of main()                                                       *)
(***************************************************************************)
VARIABLES
    api,            \* the API: one that may answer anything, or its steady data
    previous,       \* what the run before this one left; NoRun in a first run
    pc,             \* the await main() is suspended at, or "exited"
    exitCode,       \* the exit code of the process; NoExit while it runs
    err,            \* the error main().catch logs; NoError if none
    templates,      \* templates/: file name -> contents, for the readable files
    responses,      \* the HTTP statuses the API has answered with, in order
    clock,          \* the time new Date() last read
    articles,       \* const articles
    tips,           \* const tips
    articleTpl,     \* const articleTpl
    listTpl,        \* const listTpl
    tipsListTpl,    \* const tipsListTpl
    i,              \* the position of the for loop in articles
    html,           \* const html of the article being written
    articlePages,   \* const articlePages
    articlesListDoc,\* const articlesListHtml
    tipsDoc,        \* const tipsHtml
    urls,           \* const urls
    dirs,           \* the directories made
    files,          \* the output tree: path -> contents
    written         \* the paths written by this run, in order

vars == <<api, previous, pc, exitCode, err, templates, responses, clock, articles, tips, articleTpl, listTpl,
          tipsListTpl, i, html, articlePages, articlesListDoc, tipsDoc, urls,
          dirs, files, written>>

NoExit == "running"
NoError == [name |-> "", message |-> <<>>]
NoBody == [kind |-> "unset", items |-> <<>>]
NoRun == [files |-> <<>>, written |-> <<>>, clock |-> 0, runs |-> 0]

\* an API that may answer a request with any response
AnyApi == [steady |-> FALSE, articles |-> NullBody, tips |-> NullBody]

\* the responses fetch can get for a request
ArticleResponses ==
    IF api.steady THEN {[status |-> 200, body |-> api.articles]} ELSE Responses(ArticleBodies)
TipResponses ==
    IF api.steady THEN {[status |-> 200, body |-> api.tips]} ELSE Responses(TipBodies)

\* the latest time new Date() can read: a run that follows another may read
\* a later time than a first run
ClockLimit == MaxClock + previous.runs

JsError(name, message) == [name |-> name, message |-> message]

\* the error a failed file-system call rejects with
FsError(call, path) ==
    JsError("Error", <<"E","A","C","C","E","S",":"," ","p","e","r","m","i","s","s","i","o","n"," ","d","e","n","i","e","d",","," ">> \o call \o <<" ">> \o Join(path, <<"/">>))

\* JSON.stringify of a list of file names
JsonStringify(nameList) ==
    <<"[">> \o Join([k \in 1..Len(nameList) |-> <<"\"">> \o nameList[k] \o <<"\"">>], <<",">>) \o <<"]">>

RECURSIVE FirstReadable(_, _)
\* the for loop of loadTemplate: the first name of the list that readFile
\* can read, <<>> if there is none
FirstReadable(dir, nameList) ==
    IF nameList = <<>> THEN <<>>
    ELSE IF Head(nameList) \in DOMAIN dir THEN <<Head(nameList)>>
    ELSE FirstReadable(dir, Tail(nameList))

\* loadTemplate with the loop keeping the last readable candidate instead of
\* returning at the first
loadTemplateKeepingLast(dir, nameList) ==
    LET readable == {k \in 1..Len(nameList) : nameList[k] \in DOMAIN dir}
    IN  IF readable # {}
        THEN [ok |-> TRUE, txt |-> dir[nameList[Max(readable)]], error |-> NoError]
        ELSE [ok |-> FALSE, txt |-> <<>>,
              error |-> JsError("Error", <<"N","o","n","e"," ","o","f"," ","t","h","e"," ","t","e","m","p","l","a","t","e","s"," ","f","o","u","n","d",":"," ">> \o JsonStringify(nameList))]

\* loadTemplate(nameList)
loadTemplate(dir, nameList) ==
    LET found == FirstReadable(dir, nameList)
    IN  IF found # <<>>
        THEN [ok |-> TRUE, txt |-> dir[found[1]], error |-> NoError]
        ELSE [ok |-> FALSE, txt |-> <<>>,
              error |-> JsError("Error", <<"N","o","n","e"," ","o","f"," ","t","h","e"," ","t","e","m","p","l","a","t","e","s"," ","f","o","u","n","d",":"," ">> \o JsonStringify(nameList))]

\* fetchJson without the test of res.ok
fetchJsonIgnoringStatus(url, res) ==
    IF res.body = NotJson
    THEN [ok |-> FALSE, body |-> NoBody,
          error |-> JsError("SyntaxError", <<"U","n","e","x","p","e","c","t","e","d"," ","t","o","k","e","n">>)]
    ELSE [ok |-> TRUE, body |-> res.body, error |-> NoError]

\* fetchJson(url) given the response: the parsed body, or the error thrown
fetchJson(url, res) ==
    IF ~ResponseOk(res)
    THEN [ok |-> FALSE, body |-> NoBody,
          error |-> JsError("Error", <<"F","a","i","l","e","d"," ","t","o"," ","f","e","t","c","h"," ">> \o url \o <<":"," ">> \o NumberText(res.status))]
    ELSE IF res.body = NotJson
    THEN [ok |-> FALSE, body |-> NoBody,
          error |-> JsError("SyntaxError", <<"U","n","e","x","p","e","c","t","e","d"," ","t","o","k","e","n">>)]
    ELSE [ok |-> TRUE, body |-> res.body, error |-> NoError]

Init ==
    /\ api = AnyApi
    /\ previous = NoRun
    /\ pc = "ensureArticlesDir"
    /\ exitCode = NoExit
    /\ err = NoError
    /\ templates \in TemplateDirs
    /\ responses = <<>>
    /\ clock = 0
    /\ articles = NoBody
    /\ tips = NoBody
    /\ articleTpl = <<>>
    /\ listTpl = <<>>
    /\ tipsListTpl = <<>>
    /\ i = 1
    /\ html = <<>>
    /\ articlePages = <<>>
    /\ articlesListDoc = <<>>
    /\ tipsDoc = <<>>
    /\ urls = <<>>
    /\ dirs = {}
    /\ files = <<>>
    /\ written = <<>>

\* main().catch(err => { console.error(err); process.exit(1); })
Throw(e) ==
    /\ pc' = "exited"
    /\ exitCode' = 1
    /\ err' = e

\* a write that adds to the end of a file that exists, as fs.appendFile does
WriteFileAppending(path, text) ==
    /\ files' = [p \in (DOMAIN files) \cup {path} |->
                    IF p # path THEN files[p]
                    ELSE IF path \in DOMAIN files THEN files[path] \o text ELSE text]
    /\ written' = Append(written, path)

\* fs.writeFile(path, text) succeeding
WriteFile(path, text) ==
    /\ files' = [p \in (DOMAIN files) \cup {path} |-> IF p = path THEN text ELSE files[p]]
    /\ written' = Append(written, path)

\* await ensureDir(ARTICLES_DIR)
EnsureArticlesDir ==
    /\ pc = "ensureArticlesDir"
    /\ \/ /\ dirs' = dirs \cup {ARTICLES_DIR}
          /\ pc' = "ensureTipsDir"
          /\ UNCHANGED <<exitCode, err>>
       \/ /\ Throw(FsError(<<"m","k","d","i","r">>, ARTICLES_DIR))
          /\ UNCHANGED dirs
    /\ UNCHANGED <<api, previous, templates, responses, clock, articles, tips, articleTpl, listTpl, tipsListTpl, i,
                   html, articlePages, articlesListDoc, tipsDoc, urls, files, written>>

\* await ensureDir(TIPS_DIR)
EnsureTipsDir ==
    /\ pc = "ensureTipsDir"
    /\ \/ /\ dirs' = dirs \cup {TIPS_DIR}
          /\ pc' = "fetchArticles"
          /\ UNCHANGED <<exitCode, err>>
       \/ /\ Throw(FsError(<<"m","k","d","i","r">>, TIPS_DIR))
          /\ UNCHANGED dirs
    /\ UNCHANGED <<api, previous, templates, responses, clock, articles, tips, articleTpl, listTpl, tipsListTpl, i,
                   html, articlePages, articlesListDoc, tipsDoc, urls, files, written>>

\* Array.isArray(await fetchJson(`${API_BASE}/articles`)) ? ... : []
\* the first request, whose body is only tested
FetchArticles ==
    /\ pc = "fetchArticles"
    /\ \E res \in ArticleResponses :
          /\ responses' = Append(responses, res.status)
          /\ LET r == fetchJson(API_BASE \o <<"/","a","r","t","i","c","l","e","s">>, res)
             IN  IF ~r.ok THEN Throw(r.error) /\ UNCHANGED articles
                 ELSE IF IsArray(r.body)
                 THEN pc' = "refetchArticles" /\ UNCHANGED <<articles, exitCode, err>>
                 ELSE /\ articles' = ArrayBody(<<>>)
                      /\ pc' = "fetchTips"
                      /\ UNCHANGED <<exitCode, err>>
    /\ UNCHANGED <<api, previous, templates, clock, tips, articleTpl, listTpl, tipsListTpl, i, html,
                   articlePages, articlesListDoc, tipsDoc, urls, dirs, files, written>>

\* ... ? await fetchJson(`${API_BASE}/articles`) : ...
\* the second request, whose body becomes articles untested
RefetchArticles ==
    /\ pc = "refetchArticles"
    /\ \E res \in ArticleResponses :
          /\ responses' = Append(responses, res.status)
          /\ LET r == fetchJson(API_BASE \o <<"/","a","r","t","i","c","l","e","s">>, res)
             IN  IF ~r.ok THEN Throw(r.error) /\ UNCHANGED articles
                 ELSE /\ articles' = r.body
                      /\ pc' = "fetchTips"
                      /\ UNCHANGED <<exitCode, err>>
    /\ UNCHANGED <<api, previous, templates, clock, tips, articleTpl, listTpl, tipsListTpl, i, html,
                   articlePages, articlesListDoc, tipsDoc, urls, dirs, files, written>>

\* Array.isArray(await fetchJson(`${API_BASE}/tips`)) ? ... : []
FetchTips ==
    /\ pc = "fetchTips"
    /\ \E res \in TipResponses :
          /\ responses' = Append(responses, res.status)
          /\ LET r == fetchJson(API_BASE \o <<"/","t","i","p","s">>, res)
             IN  IF ~r.ok THEN Throw(r.error) /\ UNCHANGED tips
                 ELSE IF IsArray(r.body)
                 THEN pc' = "refetchTips" /\ UNCHANGED <<tips, exitCode, err>>
                 ELSE /\ tips' = ArrayBody(<<>>)
                      /\ pc' = "loadArticleTpl"
                      /\ UNCHANGED <<exitCode, err>>
    /\ UNCHANGED <<api, previous, templates, clock, articles, articleTpl, listTpl, tipsListTpl, i, html,
                   articlePages, articlesListDoc, tipsDoc, urls, dirs, files, written>>

\* ... ? await fetchJson(`${API_BASE}/tips`) : ...
RefetchTips ==
    /\ pc = "refetchTips"
    /\ \E res \in TipResponses :
          /\ responses' = Append(responses, res.status)
          /\ LET r == fetchJson(API_BASE \o <<"/","t","i","p","s">>, res)
             IN  IF ~r.ok THEN Throw(r.error) /\ UNCHANGED tips
                 ELSE /\ tips' = r.body
                      /\ pc' = "loadArticleTpl"
                      /\ UNCHANGED <<exitCode, err>>
    /\ UNCHANGED <<api, previous, templates, clock, articles, articleTpl, listTpl, tipsListTpl, i, html,
                   articlePages, articlesListDoc, tipsDoc, urls, dirs, files, written>>

\* const articleTpl = await loadTemplate(['article.html'])
LoadArticleTpl ==
    /\ pc = "loadArticleTpl"
    /\ LET r == loadTemplate(templates, ArticleTplNames)
       IN  IF r.ok
           THEN articleTpl' = r.txt /\ pc' = "loadListTpl" /\ UNCHANGED <<exitCode, err>>
           ELSE Throw(r.error) /\ UNCHANGED articleTpl
    /\ UNCHANGED <<api, previous, templates, responses, clock, articles, tips, listTpl, tipsListTpl, i, html,
                   articlePages, articlesListDoc, tipsDoc, urls, dirs, files, written>>

\* const listTpl = await loadTemplate([...])
LoadListTpl ==
    /\ pc = "loadListTpl"
    /\ LET r == loadTemplate(templates, ListTplNames)
       IN  IF r.ok
           THEN listTpl' = r.txt /\ pc' = "loadTipsListTpl" /\ UNCHANGED <<exitCode, err>>
           ELSE Throw(r.error) /\ UNCHANGED listTpl
    /\ UNCHANGED <<api, previous, templates, responses, clock, articles, tips, articleTpl, tipsListTpl, i, html,
                   articlePages, articlesListDoc, tipsDoc, urls, dirs, files, written>>

\* const tipsListTpl = await loadTemplate([...])
LoadTipsListTpl ==
    /\ pc = "loadTipsListTpl"
    /\ LET r == loadTemplate(templates, TipsTplNames)
       IN  IF r.ok
           THEN tipsListTpl' = r.txt /\ pc' = "forArticles" /\ UNCHANGED <<exitCode, err>>
           ELSE Throw(r.error) /\ UNCHANGED tipsListTpl
    /\ UNCHANGED <<api, previous, templates, responses, clock, articles, tips, articleTpl, listTpl, i, html,
                   articlePages, articlesListDoc, tipsDoc, urls, dirs, files, written>>

\* the article the for loop is at
CurrentArticle == articles.items[i]

\* const dir = path.join(ARTICLES_DIR, slug)
ArticleDir(a) == PathJoin(ARTICLES_DIR, SlugOf(a))

\* the files main() writes
PrettyPath(a) == PathJoin(ArticleDir(a), <<"i","n","d","e","x",".","h","t","m","l">>)
FlatPath(a) == PathJoin(ARTICLES_DIR, SlugOf(a) \o <<".","h","t","m","l">>)
ArticlesIndexPath == PathJoin(ARTICLES_DIR, <<"i","n","d","e","x",".","h","t","m","l">>)
ArticlesFlatPath == PathJoin(PathJoin(OUT_DIR, <<"k","n","o","w","l","e","d","g","e">>), <<"a","r","t","i","c","l","e","s",".","h","t","m","l">>)
TipsIndexPath == PathJoin(TIPS_DIR, <<"i","n","d","e","x",".","h","t","m","l">>)
TipsFlatPath == PathJoin(PathJoin(OUT_DIR, <<"k","n","o","w","l","e","d","g","e">>), <<"t","i","p","s",".","h","t","m","l">>)
SitemapPath == PathJoin(OUT_DIR, <<"s","i","t","e","m","a","p",".","x","m","l">>)
RobotsPath == PathJoin(OUT_DIR, <<"r","o","b","o","t","s",".","t","x","t">>)
CnamePath == PathJoin(OUT_DIR, <<"C","N","A","M","E">>)

\* for (const a of articles) { ...; await ensureDir(dir);
\* a value that is no array is not iterable and the loop throws a TypeError
ForArticles ==
    /\ pc = "forArticles"
    /\ \/ /\ ~IsArray(articles)
          /\ Throw(JsError("TypeError", <<"a","r","t","i","c","l","e","s"," ","i","s"," ","n","o","t"," ","i","t","e","r","a","b","l","e">>))
          /\ UNCHANGED dirs
       \/ /\ IsArray(articles)
          /\ i > Len(articles.items)
          /\ pc' = "writeArticlesIndex"
          /\ UNCHANGED <<exitCode, err, dirs>>
       \/ /\ IsArray(articles)
          /\ i <= Len(articles.items)
          /\ \/ /\ dirs' = dirs \cup {ArticleDir(CurrentArticle)}
                /\ pc' = "writeArticleIndex"
                /\ UNCHANGED <<exitCode, err>>
             \/ /\ Throw(FsError(<<"m","k","d","i","r">>, ArticleDir(CurrentArticle)))
                /\ UNCHANGED dirs
    /\ UNCHANGED <<api, previous, templates, responses, clock, articles, tips, articleTpl, listTpl, tipsListTpl, i,
                   html, articlePages, articlesListDoc, tipsDoc, urls, files, written>>

\* const html = articleTpl.replaceAll(...)...;
\* await fs.writeFile(path.join(dir, 'index.html'), html, 'utf-8')
WriteArticleIndex ==
    /\ pc = "writeArticleIndex"
    /\ \E now \in clock..ClockLimit :
          /\ clock' = now
          /\ html' = ArticleHtml(articleTpl, CurrentArticle, now)
          /\ LET path == PrettyPath(CurrentArticle)
             IN  \/ /\ WriteFile(path, html')
                    /\ pc' = "writeArticleFlat"
                    /\ UNCHANGED <<exitCode, err>>
                 \/ /\ Throw(FsError(<<"o","p","e","n">>, path))
                    /\ UNCHANGED <<files, written>>
    /\ UNCHANGED <<api, previous, templates, responses, articles, tips, articleTpl, listTpl, tipsListTpl, i,
                   articlePages, articlesListDoc, tipsDoc, urls, dirs>>

\* await fs.writeFile(path.join(ARTICLES_DIR, `${slug}.html`), html, 'utf-8');
\* articlePages.push({...}) } -- no catch: a failure of this write is thrown
WriteArticleFlat ==
    /\ pc = "writeArticleFlat"
    /\ LET path == FlatPath(CurrentArticle)
       IN  \/ /\ WriteFile(path, html)
                 /\ articlePages' = Append(articlePages, ArticlePage(CurrentArticle, clock))
                 /\ i' = i + 1
                 /\ pc' = "forArticles"
                 /\ UNCHANGED <<exitCode, err>>
           \/ /\ Throw(FsError(<<"o","p","e","n">>, path))
              /\ UNCHANGED <<files, written, articlePages, i>>
    /\ UNCHANGED <<api, previous, templates, responses, clock, articles, tips, articleTpl, listTpl, tipsListTpl,
                   html, articlesListDoc, tipsDoc, urls, dirs>>

\* const articlesListHtml = listTpl.replaceAll('{{ARTICLE_ROWS}}', articleRowsHtml);
\* await fs.writeFile(path.join(ARTICLES_DIR, 'index.html'), articlesListHtml, 'utf-8')
WriteArticlesIndex ==
    /\ pc = "writeArticlesIndex"
    /\ articlesListDoc' = articlesListHtml(listTpl, articlePages, articles.items)
    /\ LET path == ArticlesIndexPath
       IN  \/ /\ WriteFile(path, articlesListDoc')
              /\ pc' = "writeArticlesFlat"
              /\ UNCHANGED <<exitCode, err>>
           \/ /\ Throw(FsError(<<"o","p","e","n">>, path))
              /\ UNCHANGED <<files, written>>
    /\ UNCHANGED <<api, previous, templates, responses, clock, articles, tips, articleTpl, listTpl, tipsListTpl, i,
                   html, articlePages, tipsDoc, urls, dirs>>

\* the write of articles.html going on to the sitemap at once, before the
\* tips list is written
WriteArticlesFlatThenSitemap ==
    /\ pc = "writeArticlesFlat"
    /\ \/ WriteFile(ArticlesFlatPath, articlesListDoc)
       \/ UNCHANGED <<files, written>>
    /\ pc' = "writeSitemap"
    /\ UNCHANGED <<exitCode, err, api, previous, templates, responses, clock, articles, tips, articleTpl, listTpl,
                   tipsListTpl, i, html, articlePages, articlesListDoc, tipsDoc, urls, dirs>>

\* await fs.writeFile(path.join(OUT_DIR, 'knowledge', 'articles.html'), ...).catch(() => { })
WriteArticlesFlat ==
    /\ pc = "writeArticlesFlat"
    /\ \/ WriteFile(ArticlesFlatPath, articlesListDoc)
       \/ UNCHANGED <<files, written>>
    /\ pc' = "writeTipsIndex"
    /\ UNCHANGED <<exitCode, err, api, previous, templates, responses, clock, articles, tips, articleTpl, listTpl,
                   tipsListTpl, i, html, articlePages, articlesListDoc, tipsDoc, urls, dirs>>

\* const tipRowsHtml = (tips || []).map(...).join('\n'); const tipsHtml = ...;
\* await fs.writeFile(path.join(TIPS_DIR, 'index.html'), tipsHtml, 'utf-8')
\* null is replaced by []; another value that is no array has no map and the
\* call throws a TypeError
WriteTipsIndex ==
    /\ pc = "writeTipsIndex"
    /\ \/ /\ tips.kind = "object"
          /\ Throw(JsError("TypeError", <<"(","t","i","p","s"," ","|","|"," ","[","]",")",".","m","a","p"," ","i","s"," ","n","o","t"," ","a"," ","f","u","n","c","t","i","o","n">>))
          /\ UNCHANGED <<tipsDoc, files, written>>
       \/ /\ tips.kind # "object"
          /\ tipsDoc' = tipsHtml(tipsListTpl, tips.items)
          /\ LET path == TipsIndexPath
             IN  \/ /\ WriteFile(path, tipsDoc')
                    /\ pc' = "writeTipsFlat"
                    /\ UNCHANGED <<exitCode, err>>
                 \/ /\ Throw(FsError(<<"o","p","e","n">>, path))
                    /\ UNCHANGED <<files, written>>
    /\ UNCHANGED <<api, previous, templates, responses, clock, articles, tips, articleTpl, listTpl, tipsListTpl, i,
                   html, articlePages, articlesListDoc, urls, dirs>>

\* await fs.writeFile(path.join(OUT_DIR, 'knowledge', 'tips.html'), ...).catch(() => { })
WriteTipsFlat ==
    /\ pc = "writeTipsFlat"
    /\ \/ WriteFile(TipsFlatPath, tipsDoc)
       \/ UNCHANGED <<files, written>>
    /\ pc' = "writeSitemap"
    /\ UNCHANGED <<exitCode, err, api, previous, templates, responses, clock, articles, tips, articleTpl, listTpl,
                   tipsListTpl, i, html, articlePages, articlesListDoc, tipsDoc, urls, dirs>>

\* the sitemap write with a .catch(() => { }) like the legacy copies have
WriteSitemapBestEffort ==
    /\ pc = "writeSitemap"
    /\ \E now \in clock..ClockLimit :
          /\ clock' = now
          /\ urls' = SitemapUrls(articlePages, articles.items, now)
          /\ \/ WriteFile(SitemapPath, SitemapXml(urls'))
             \/ UNCHANGED <<files, written>>
    /\ pc' = "writeRobots"
    /\ UNCHANGED <<exitCode, err, api, previous, templates, responses, articles, tips, articleTpl, listTpl,
                   tipsListTpl, i, html, articlePages, articlesListDoc, tipsDoc, dirs>>

\* const urls = [...]; for (const p of articlePages) {...};
\* await fs.writeFile(path.join(OUT_DIR, 'sitemap.xml'), sitemap, 'utf-8')
WriteSitemap ==
    /\ pc = "writeSitemap"
    /\ \E now \in clock..ClockLimit :
          /\ clock' = now
          /\ urls' = SitemapUrls(articlePages, articles.items, now)
          /\ LET path == SitemapPath
             IN  \/ /\ WriteFile(path, SitemapXml(urls'))
                    /\ pc' = "writeRobots"
                    /\ UNCHANGED <<exitCode, err>>
                 \/ /\ Throw(FsError(<<"o","p","e","n">>, path))
                    /\ UNCHANGED <<files, written>>
    /\ UNCHANGED <<api, previous, templates, responses, articles, tips, articleTpl, listTpl, tipsListTpl, i, html,
                   articlePages, articlesListDoc, tipsDoc, dirs>>

\* await fs.writeFile(path.join(OUT_DIR, 'robots.txt'), robots, 'utf-8')
WriteRobots ==
    /\ pc = "writeRobots"
    /\ LET path == RobotsPath
       IN  \/ /\ WriteFile(path, RobotsTxt)
              /\ pc' = "writeCname"
              /\ UNCHANGED <<exitCode, err>>
           \/ /\ Throw(FsError(<<"o","p","e","n">>, path))
              /\ UNCHANGED <<files, written>>
    /\ UNCHANGED <<api, previous, templates, responses, clock, articles, tips, articleTpl, listTpl, tipsListTpl, i,
                   html, articlePages, articlesListDoc, tipsDoc, urls, dirs>>

\* await fs.writeFile(path.join(OUT_DIR, 'CNAME'), 'yogastraa.com\n', 'utf-8');
\* main() returns and the process exits with code 0
WriteCname ==
    /\ pc = "writeCname"
    /\ LET path == CnamePath
       IN  \/ /\ WriteFile(path, CnameTxt)
              /\ pc' = "exited"
              /\ exitCode' = 0
              /\ UNCHANGED err
           \/ /\ Throw(FsError(<<"o","p","e","n">>, path))
              /\ UNCHANGED <<files, written>>
    /\ UNCHANGED <<api, previous, templates, responses, clock, articles, tips, articleTpl, listTpl, tipsListTpl, i,
                   html, articlePages, articlesListDoc, tipsDoc, urls, dirs>>

Next ==
    \/ EnsureArticlesDir
    \/ EnsureTipsDir
    \/ FetchArticles
    \/ RefetchArticles
    \/ FetchTips
    \/ RefetchTips
    \/ LoadArticleTpl
    \/ LoadListTpl
    \/ LoadTipsListTpl
    \/ ForArticles
    \/ WriteArticleIndex
    \/ WriteArticleFlat
    \/ WriteArticlesIndex
    \/ WriteArticlesFlat
    \/ WriteTipsIndex
    \/ WriteTipsFlat
    \/ WriteSitemap
    \/ WriteRobots
    \/ WriteCname

Spec == Init /\ [][Next]_vars

(***************************************************************************)
(* Properties                                                              *)
(***************************************************************************)
\* the run has ended normally
Succeeded == pc = "exited" /\ exitCode = 0

\* the awaits of main() that come after the three templates are loaded
RenderPcs ==
    {"forArticles", "writeArticleIndex", "writeArticleFlat", "writeArticlesIndex",
     "writeArticlesFlat", "writeTipsIndex", "writeTipsFlat", "writeSitemap",
     "writeRobots", "writeCname"}

\* C1: whatever bodies the API returns, articles and tips are sequences once
\* they are fetched, and no run aborts on a value that is no sequence
C1_NonSequenceBodyTolerated ==
    /\ articles # NoBody => IsArray(articles)
    /\ tips # NoBody => IsArray(tips)
    /\ err.name # "TypeError"

\* C2: once a request has been answered with a status that is not
\* successful, the run has exited with code 1 and has written no file
C2_FetchFailureWritesNothing ==
    (\E k \in 1..Len(responses) : responses[k] \notin 200..299)
        => /\ pc = "exited"
           /\ exitCode = 1
           /\ written = <<>>
           /\ DOMAIN files = {}

\* the fourth request of a run (the second one for the tips) was refused
C2_Witness ==
    /\ Len(responses) = 4
    /\ responses[4] \notin 200..299
    /\ pc = "exited"

\* the three loadTemplate calls of main, in order
TemplateLoads ==
    <<[names |-> ArticleTplNames, at |-> "loadArticleTpl"],
      [names |-> ListTplNames, at |-> "loadListTpl"],
      [names |-> TipsTplNames, at |-> "loadTipsListTpl"]>>

\* the positions of the candidates of nameList that templates/ holds
Readable(nameList) == {k \in 1..Len(nameList) : nameList[k] \in DOMAIN templates}

\* a loaded template is the first candidate that templates/ holds
IsFirstReadable(txt, nameList) ==
    txt # <<>> =>
        /\ Readable(nameList) # {}
        /\ \E k \in Readable(nameList) :
              /\ \A j \in 1..(k - 1) : j \notin Readable(nameList)
              /\ txt = templates[nameList[k]]

\* C3: each template is the contents of the first readable candidate of its
\* list; a run does not get past a load none of whose candidates is readable:
\* it exits with code 1 and an error that names every candidate of that list
C3_FirstReadableTemplate ==
    /\ IsFirstReadable(articleTpl, ArticleTplNames)
    /\ IsFirstReadable(listTpl, ListTplNames)
    /\ IsFirstReadable(tipsListTpl, TipsTplNames)
    /\ (pc \in RenderPcs \/ Succeeded)
          => articleTpl # <<>> /\ listTpl # <<>> /\ tipsListTpl # <<>>
    /\ \A k \in 1..Len(TemplateLoads) :
          (/\ tips # NoBody
           /\ Readable(TemplateLoads[k].names) = {}
           /\ \A j \in 1..(k - 1) : Readable(TemplateLoads[j].names) # {})
          => \/ pc \in {TemplateLoads[j].at : j \in 1..k}
             \/ /\ pc = "exited"
                /\ exitCode = 1
                /\ \A n \in 1..Len(TemplateLoads[k].names) :
                      Includes(err.message, TemplateLoads[k].names[n])

\* the list template came from the second candidate because the first is
\* missing, and the run then aborted because no tips template is readable
C3_Witness ==
    /\ ListTplNames[1] \notin DOMAIN templates
    /\ ListTplNames[2] \in DOMAIN templates
    /\ listTpl = templates[ListTplNames[2]]
    /\ Readable(TipsTplNames) = {}
    /\ pc = "exited"
    /\ exitCode = 1

\* the awaits that write a primary file
PrimaryWritePcs == {"writeArticleIndex", "writeArticlesIndex", "writeTipsIndex", "writeSitemap"}

\* C4: a step at a primary write that writes nothing (the write failed) ends
\* the run with exit code 1 and leaves every file as it was; a failed second
\* write of an article leaves every file as it was too; nothing happens after
\* the exit; and a run that ends without an error exits with code 0
C4_PrimaryWriteFailureAborts ==
    [][/\ (pc \in PrimaryWritePcs /\ written' = written)
            => (pc' = "exited" /\ exitCode' = 1 /\ files' = files)
       /\ (pc = "writeArticleFlat" /\ written' = written) => files' = files
       /\ pc # "exited"
       /\ pc' = "exited" => (exitCode' = 0 <=> err' = NoError)
       /\ pc' = "exited" => exitCode' \in {0, 1}]_vars

\* the write of sitemap.xml failed after the pages of an article and the two
\* index pages were written
C4_Witness ==
    /\ pc = "exited"
    /\ exitCode = 1
    /\ err = FsError(<<"o","p","e","n">>, SitemapPath)
    /\ articlePages # <<>>
    /\ {PrettyPath(articles.items[1]), ArticlesIndexPath, TipsIndexPath} \subseteq DOMAIN files
    /\ SitemapPath \notin DOMAIN files

\* the legacy-path copies
SecondaryPaths ==
    {ArticlesFlatPath, TipsFlatPath}
    \cup (IF IsArray(articles)
          THEN {FlatPath(articles.items[k]) : k \in 1..Len(articles.items)} \ {ArticlesIndexPath}
          ELSE {})

\* C5: no run ends on the failure of a write of a legacy-path copy
C5_SecondaryWriteFailureSwallowed ==
    \A p \in SecondaryPaths : err # FsError(<<"o","p","e","n">>, p)

\* C6: after a successful run the pretty page and the flat page of every
\* fetched article exist and both hold the document rendered from that article
C6_BothPagesHoldTheArticle ==
    Succeeded =>
        \A k \in 1..Len(articles.items) :
            LET a == articles.items[k]
            IN  /\ PrettyPath(a) \in DOMAIN files
                /\ FlatPath(a) \in DOMAIN files
                /\ files[PrettyPath(a)] = files[FlatPath(a)]
                /\ \E now \in 0..MaxClock : files[PrettyPath(a)] = ArticleHtml(articleTpl, a, now)

\* the two sitemap entries of article a when the sitemap is built at time now
OwnEntries(a, now) ==
    LET lastmod == IF a.updatedAt # <<>> THEN formatISO(a.updatedAt, now) ELSE NowISO(now)
    IN  <<[loc |-> urlPathDir(SlugOf(a)), lastmod |-> lastmod],
          [loc |-> urlPathFile(SlugOf(a)), lastmod |-> lastmod]>>

\* C7: the sitemap written is the 8 static entries followed by, for each
\* fetched article in order, its pretty and its flat entry, both with that
\* article's own update timestamp or else the time of the run
C7_SitemapEntries ==
    (pc \in {"writeRobots", "writeCname"} \/ Succeeded) =>
        \E now \in 0..MaxClock :
            /\ Len(urls) = 8 + 2 * Len(articles.items)
            /\ \A k \in 1..8 : urls[k] = [loc |-> StaticLocs[k], lastmod |-> NowISO(now)]
            /\ \A k \in 1..Len(articles.items) :
                  <<urls[8 + 2 * k - 1], urls[8 + 2 * k]>> = OwnEntries(articles.items[k], now)
            /\ files[SitemapPath] = SitemapXml(urls)

\* C8: the articles index holds one card per fetched article, in fetch
\* order, the k-th built from the k-th article's own data, and the tips index
\* one row per fetched tip, in fetch order
C8_ListFragments ==
    (pc \in {"writeSitemap", "writeRobots", "writeCname"} \/ Succeeded) =>
        /\ \E now \in 0..MaxClock :
              articlesListDoc =
                  replaceAll(listTpl, <<"{","{","A","R","T","I","C","L","E","_","R","O","W","S","}","}">>,
                      Join([k \in 1..Len(articles.items) |->
                               ArticleCard(ArticlePage(articles.items[k], now), articles.items[k])],
                           <<"\n">>))
        /\ tipsDoc = replaceAll(tipsListTpl, <<"{","{","T","I","P","_","R","O","W","S","}","}">>,
                         Join([k \in 1..Len(tips.items) |-> TipRow(tips.items[k])], <<"\n">>))

RECURSIVE SinglePassFrom(_, _, _)
\* one pass over text from position p: where a placeholder of pairs stands,
\* its value is put, as it is; every other character is copied
SinglePassFrom(text, pairs, p) ==
    LET tokenAt(q) == {k \in 1..Len(pairs) : MatchAt(text, pairs[k][1], q)}
        stops == {q \in p..Len(text) : tokenAt(q) # {}}
    IN  IF stops = {} THEN From(text, p)
        ELSE LET q == Min(stops)
                 k == Min(tokenAt(q))
             IN  SubSeq(text, p, q - 1) \o pairs[k][2]
                 \o SinglePassFrom(text, pairs, q + Len(pairs[k][1]))

\* C9: the article page is the single-pass substitution of the placeholders'
\* values into the template
C9_SinglePassSubstitution ==
    pc = "writeArticleFlat" =>
        html = SinglePassFrom(articleTpl, Placeholders(CurrentArticle, clock), 1)

\* the placeholders with the category names escaped once
OnceEscapedPlaceholders(a, now) ==
    [k \in 1..Len(Placeholders(a, now)) |->
        IF Placeholders(a, now)[k][1] = <<"{","{","C","A","T","E","G","O","R","I","E","S","}","}">>
        THEN <<<<"{","{","C","A","T","E","G","O","R","I","E","S","}","}">>, categoriesStr(a)>>
        ELSE Placeholders(a, now)[k]]

\* text has no markup character left and each & of it begins one of the four entities
IsEscapedText(text) ==
    /\ \A p \in 1..Len(text) : text[p] \notin {"<", ">", "\""}
    /\ \A p \in 1..Len(text) :
          text[p] = "&" => \E e \in {<<"&","a","m","p",";">>, <<"&","l","t",";">>, <<"&","g","t",";">>, <<"&","q","u","o","t",";">>} : MatchAt(text, e, p)

\* contentHtml without the generated paragraph and line-break tags
WithoutGeneratedTags(contentHtml) ==
    replaceAll(replaceAll(replaceAll(contentHtml, <<"<","p",">">>, <<>>), <<"<","/","p",">">>, <<>>), <<"<","b","r","/",">">>, <<>>)

\* C10: on the article page every &, <, > and " of the title, the author, the
\* category names and the content stands as its entity, escaped once, and the
\* content brings no markup but the generated paragraph and line-break tags
C10_EscapedExactlyOnce ==
    pc = "writeArticleFlat" =>
        /\ html = ChainReplace(articleTpl, OnceEscapedPlaceholders(CurrentArticle, clock))
        /\ IsEscapedText(WithoutGeneratedTags(textToHtml(CurrentArticle.content)))


(***************************************************************************)
(* The image block of an article, rendered for image lists of every        *)
(* length up to MaxImages                                                  *)
(***************************************************************************)
MaxImages == 3

\* the url of an image: plain, with characters escapeHtml rewrites, absent
ImageUrls == {<<"/","i","/","1",".","j","p","g">>, <<"x","\""," ","c","l","a","s","s","=","\"","a","c","t","i","v","e">>, <<>>, <<"<","a","c","t","i","v","e",">","&","1">>}
ImageLists == SeqUpTo({[url |-> u] : u \in ImageUrls}, MaxImages)
ImageSlugs == {<<"y","o","g","a">>, <<"a"," ","b","/","c","_","D","-","9">>}
ImageTitles == {<<>>, <<"\"","a","c","t","i","v","e","\""," ","<","b",">">>}

ImageArticle(imgs, slug, title) ==
    [Article4 EXCEPT !.images = imgs, !.slug = slug, !.title = title]

InitImages ==
    /\ api = AnyApi
    /\ previous = NoRun
    /\ pc = "images"
    /\ articles \in {ArrayBody(<<ImageArticle(l, s, t)>>) :
                        l \in ImageLists, s \in ImageSlugs, t \in ImageTitles}
    /\ exitCode = NoExit
    /\ err = NoError
    /\ templates = TemplateDir(AllTplNames, ArticleTplText)
    /\ responses = <<>>
    /\ clock = 0
    /\ tips = NoBody
    /\ articleTpl = <<>>
    /\ listTpl = <<>>
    /\ tipsListTpl = <<>>
    /\ i = 1
    /\ html = <<>>
    /\ articlePages = <<>>
    /\ articlesListDoc = <<>>
    /\ tipsDoc = <<>>
    /\ urls = <<>>
    /\ dirs = {}
    /\ files = <<>>
    /\ written = <<>>

\* const imgs = ...; let imagesCarouselHtml = ''; if ... else if ...
RenderImages ==
    /\ pc = "images"
    /\ html' = imagesCarouselHtml(CurrentArticle.images, SlugOf(CurrentArticle),
                                  TitleOf(CurrentArticle))
    /\ pc' = "imagesRendered"
    /\ UNCHANGED <<exitCode, err, api, previous, templates, responses, clock, articles, tips, articleTpl,
                   listTpl, tipsListTpl, i, articlePages, articlesListDoc, tipsDoc, urls,
                   dirs, files, written>>

NextImages == RenderImages

SpecImages == InitImages /\ [][NextImages]_vars

RECURSIVE CountFrom(_, _, _)
\* the number of occurrences of pat in text from position from on
CountFrom(text, pat, from) ==
    LET p == IndexOfFrom(text, pat, from)
    IN  IF p = 0 THEN 0 ELSE 1 + CountFrom(text, pat, p + Len(pat))

CountOf(text, pat) == CountFrom(text, pat, 1)

RECURSIVE ElementsFrom(_, _, _, _)
\* the elements of text that open with open, each up to its first close,
\* in the order they occur
ElementsFrom(text, open, close, from) ==
    LET p == IndexOfFrom(text, open, from)
        q == IF p = 0 THEN 0 ELSE IndexOfFrom(text, close, p + Len(open))
    IN  IF p = 0 \/ q = 0 THEN <<>>
        ELSE <<SubSeq(text, p, q + Len(close) - 1)>>
             \o ElementsFrom(text, open, close, q + Len(close))

\* the value of the first attribute name="..." of an element
Attr(element, name) ==
    LET p == IndexOfFrom(element, name \o <<"=","\"">>, 1)
        start == p + Len(name) + 2
        q == IndexOfFrom(element, <<"\"">>, start)
    IN  SubSeq(element, start, q - 1)

IndicatorsOf(block) ==
    ElementsFrom(block, <<"<","b","u","t","t","o","n"," ","t","y","p","e","=","\"","b","u","t","t","o","n","\""," ","d","a","t","a","-","b","s","-","t","a","r","g","e","t","=">>, <<"<","/","b","u","t","t","o","n",">">>, 1)
SlidesOf(block) == ElementsFrom(block, <<"<","d","i","v"," ","c","l","a","s","s","=","\"","c","a","r","o","u","s","e","l","-","i","t","e","m"," ">>, <<"<","/","d","i","v",">">>, 1)
IsCarousel(block) == CountOf(block, <<"c","l","a","s","s","=","\"","c","a","r","o","u","s","e","l"," ","s","l","i","d","e"," ">>) = 1
ActiveIndicator(e) == Includes(e, <<" ","c","l","a","s","s","=","\"","a","c","t","i","v","e","\""," ">>)
ActiveSlide(e) == Attr(e, <<"c","l","a","s","s">>) = <<"c","a","r","o","u","s","e","l","-","i","t","e","m"," ","a","c","t","i","v","e">>
ActiveMarks(block) ==
    Cardinality({k \in DOMAIN IndicatorsOf(block) : ActiveIndicator(IndicatorsOf(block)[k])})
    + Cardinality({k \in DOMAIN SlidesOf(block) : ActiveSlide(SlidesOf(block)[k])})

\* C11 as the spec words it: a carousel holds exactly one element marked
\* active
C11_ExactlyOneActiveElement ==
    (pc = "imagesRendered" /\ Len(CurrentArticle.images) >= 2) => ActiveMarks(html) = 1

\* C11: no image gives no block, one image a single image block and no
\* carousel, n >= 2 images a carousel of n indicators and n slides, the k-th
\* of them for the k-th image, where the first indicator and the first slide
\* are the ones marked active and no other is
C11_ImageBlock ==
    pc = "imagesRendered" =>
        LET imgs == CurrentArticle.images
            n == Len(imgs)
            indicators == IndicatorsOf(html)
            slides == SlidesOf(html)
        IN  /\ n = 0 => html = <<>>
            /\ n = 1 => /\ ~IsCarousel(html)
                        /\ indicators = <<>> /\ slides = <<>>
                        /\ CountOf(html, <<"<","i","m","g"," ">>) = 1
                        /\ Attr(html, <<"s","r","c">>) = escapeHtml(imgs[1].url)
            /\ n >= 2 => /\ IsCarousel(html)
                         /\ Len(indicators) = n /\ Len(slides) = n
                         /\ CountOf(html, <<"<","i","m","g"," ">>) = n
                         /\ \A k \in 1..n :
                               /\ Attr(indicators[k], <<"d","a","t","a","-","b","s","-","s","l","i","d","e","-","t","o">>) = NumberText(k - 1)
                               /\ Attr(slides[k], <<"s","r","c">>) = escapeHtml(imgs[k].url)
                               /\ ActiveIndicator(indicators[k]) <=> k = 1
                               /\ ActiveSlide(slides[k]) <=> k = 1
                         /\ ActiveMarks(html) = 2

C11_Witness ==
    /\ pc = "imagesRendered"
    /\ Len(CurrentArticle.images) = MaxImages
    /\ Len(SlidesOf(html)) = MaxImages
    /\ CurrentArticle.images[1].url # CurrentArticle.images[2].url

\* the timestamp the date fields of an article page are made from:
\* a.createdAt || a.updatedAt || now
RawCreated(a, now) == FirstTruthy(a.createdAt, a.updatedAt, NowISO(now))

\* C12: no run ends on a date that cannot be parsed, and on the page of an
\* article whose timestamp cannot be parsed the ISO date is the current time
\* and the display date is the raw string (escaped as all inserted text is)
C12_UnparseableDateRecovered ==
    /\ err.name # "RangeError"
    /\ (pc = "writeArticleFlat" /\ articleTpl = ArticleTplText
          /\ NewDate(RawCreated(CurrentArticle, clock)) = InvalidDate)
        => /\ Includes(html, <<"{","{","O","T","H","E","R","}","}">> \o NowISO(clock) \o <<"|">>)
           /\ Includes(html, <<"|">> \o escapeHtml(RawCreated(CurrentArticle, clock))
                                 \o <<"|">> \o baseUrl)

(***************************************************************************)
(* Two runs in a row against an API whose data do not change               *)
(***************************************************************************)
\* an API that gives every request for a collection the same answer: a
\* list of articles of different ids, a list of tips
SteadyApis ==
    {[steady |-> TRUE, articles |-> ArrayBody(a), tips |-> ArrayBody(t)] :
        a \in {s \in SeqUpTo(ArticlePalette, MaxArticles) :
                    \A j, k \in DOMAIN s : s[j].id = s[k].id => j = k},
        t \in SeqUpTo(TipPalette, MaxTips)}

InitTwice ==
    /\ api \in SteadyApis
    /\ previous = NoRun
    /\ pc = "ensureArticlesDir"
    /\ exitCode = NoExit
    /\ err = NoError
    /\ templates = TemplateDir(AllTplNames, ArticleTplText)
    /\ responses = <<>>
    /\ clock = 0
    /\ articles = NoBody
    /\ tips = NoBody
    /\ articleTpl = <<>>
    /\ listTpl = <<>>
    /\ tipsListTpl = <<>>
    /\ i = 1
    /\ html = <<>>
    /\ articlePages = <<>>
    /\ articlesListDoc = <<>>
    /\ tipsDoc = <<>>
    /\ urls = <<>>
    /\ dirs = {}
    /\ files = <<>>
    /\ written = <<>>

\* the script is started again, at a later time, after a run that exited
\* with code 0 and in which no write failed: main() starts with nothing in
\* memory; templates/, the output tree and the directories are as the first
\* run left them
RunAgain ==
    /\ pc = "exited"
    /\ exitCode = 0
    /\ {ArticlesFlatPath, TipsFlatPath} \subseteq DOMAIN files
    /\ previous = NoRun
    /\ previous' = [files |-> files, written |-> written, clock |-> clock, runs |-> 1]
    /\ pc' = "ensureArticlesDir"
    /\ exitCode' = NoExit
    /\ responses' = <<>>
    /\ articles' = NoBody
    /\ tips' = NoBody
    /\ articleTpl' = <<>>
    /\ listTpl' = <<>>
    /\ tipsListTpl' = <<>>
    /\ i' = 1
    /\ html' = <<>>
    /\ articlePages' = <<>>
    /\ articlesListDoc' = <<>>
    /\ tipsDoc' = <<>>
    /\ urls' = <<>>
    /\ written' = <<>>
    /\ clock' = MaxClock + 1
    /\ UNCHANGED <<api, err, templates, dirs, files>>

NextTwice == Next \/ RunAgain

SpecTwice == InitTwice /\ [][NextTwice]_vars

RECURSIVE MaskNow(_, _)
\* text with every current time the clock can have read up to t, in its ISO
\* form and in its display form, replaced by the time 0
MaskNow(text, t) ==
    IF t = 0 THEN text
    ELSE MaskNow(replaceAll(replaceAll(text, NowISO(t), NowISO(0)),
                            toLocaleDateString(NowISO(t)), toLocaleDateString(NowISO(0))),
                 t - 1)

\* the second run has ended with code 0 and has made the writes the first made
SecondRunDone ==
    /\ previous.runs = 1
    /\ pc = "exited"
    /\ exitCode = 0
    /\ written = previous.written

\* C13: when the second of two runs against the same API data and templates
\* has ended, the output tree holds the files the first run left and no
\* other, and each file is what the first run wrote but for the current
\* times in it
C13_SecondRunSameFiles ==
    SecondRunDone =>
        /\ DOMAIN files = DOMAIN previous.files
        /\ \A p \in DOMAIN files :
              \/ files[p] = previous.files[p]
              \/ MaskNow(files[p], ClockLimit) = MaskNow(previous.files[p], ClockLimit)

C13_Witness ==
    /\ SecondRunDone
    /\ Len(articles.items) = MaxArticles
    /\ clock > previous.clock
    /\ files[SitemapPath] # previous.files[SitemapPath]
    /\ \E k \in 1..Len(articles.items) :
          /\ articles.items[k].createdAt = <<>>
          /\ articles.items[k].updatedAt = <<>>
          /\ files[PrettyPath(articles.items[k])] # previous.files[PrettyPath(articles.items[k])]

(***************************************************************************)
(* The order of the stages of a run                                        *)
(***************************************************************************)
\* the awaits of main in the order of the text of main
PcOrder ==
    <<"ensureArticlesDir", "ensureTipsDir", "fetchArticles", "refetchArticles", "fetchTips",
      "refetchTips", "loadArticleTpl", "loadListTpl", "loadTipsListTpl", "forArticles",
      "writeArticleIndex", "writeArticleFlat", "writeArticlesIndex", "writeArticlesFlat",
      "writeTipsIndex", "writeTipsFlat", "writeSitemap", "writeRobots", "writeCname", "exited">>

Position(p) == CHOOSE k \in DOMAIN PcOrder : PcOrder[k] = p

\* how far a run is: the position of its await, where every turn of the for
\* loop taken counts for the loop's three awaits
Progress(p, turn) ==
    Position(p) + (IF Position(p) >= Position("forArticles") THEN 3 * (turn - 1) ELSE 0)

RECURSIVE ArticleWrites(_)
\* the two files of every article, in the order of the list
ArticleWrites(items) ==
    IF items = <<>> THEN <<>>
    ELSE <<PrettyPath(Head(items)), FlatPath(Head(items))>> \o ArticleWrites(Tail(items))

\* the writes of a whole run in the order the claim gives
StageWrites(items) ==
    ArticleWrites(items)
    \o <<ArticlesIndexPath, ArticlesFlatPath, TipsIndexPath, TipsFlatPath, SitemapPath,
         RobotsPath, CnamePath>>

RECURSIVE Follows(_, _, _)
\* done is the beginning of order, but for paths of passed left out (the
\* legacy copies of the list pages: a failed write of one is passed over)
Follows(done, order, passed) ==
    IF done = <<>> THEN TRUE
    ELSE IF order = <<>> THEN FALSE
    ELSE IF Head(done) = Head(order) THEN Follows(Tail(done), Tail(order), passed)
    ELSE Head(order) \in passed /\ Follows(done, Tail(order), passed)

\* the positions of path in the sequence of writes done
WritesOf(done, path) == {k \in DOMAIN done : done[k] = path}

\* every path of before is written before the last write of path
WrittenBefore(done, before, path) ==
    LET last == Max(WritesOf(done, path))
    IN  \A q \in before : \E j \in WritesOf(done, q) : j < last

\* the state of a run, as the claim orders it
StagesInOrder ==
    /\ tips # NoBody => articles # NoBody
    /\ (articleTpl # <<>> \/ listTpl # <<>> \/ tipsListTpl # <<>>) => tips # NoBody
    /\ written # <<>> =>
          /\ articles # NoBody /\ tips # NoBody
          /\ articleTpl # <<>> /\ listTpl # <<>> /\ tipsListTpl # <<>>
          /\ LET order == StageWrites(articles.items)
                 pages == ArticleWrites(articles.items)
                 sitemap == SitemapPath
             IN  /\ Follows(written, order, {ArticlesFlatPath, TipsFlatPath})
                 /\ WritesOf(written, sitemap) # {} =>
                       WrittenBefore(written,
                                     {pages[k] : k \in DOMAIN pages}
                                         \cup {ArticlesIndexPath, TipsIndexPath},
                                     sitemap)

\* the runs of main from a templates/ that holds every template, or lacks
\* all candidates of one of the three loads
InitOrder ==
    /\ Init
    /\ templates \in {TemplateDir(AllTplNames \ gone, ArticleTplText) :
                          gone \in {{}, {ArticleTplNames[1]},
                                    {ListTplNames[k] : k \in DOMAIN ListTplNames},
                                    {TipsTplNames[k] : k \in DOMAIN TipsTplNames}}}

SpecOrder == InitOrder /\ [][Next]_vars

\* C14: every step of a run takes it forward in the order fetch articles,
\* fetch tips, load the templates, the articles one by one in list order
\* (both files of one before the next), articles list, tips list, sitemap,
\* robots.txt, CNAME; nothing is written before both collections and the
\* three templates are there, and the sitemap is written after every article
\* page and both list pages
C14_StagesInOrder ==
    /\ []StagesInOrder
    /\ [][Progress(pc', i') > Progress(pc, i) /\ i' \in {i, i + 1}]_vars

C14_Witness ==
    /\ pc = "exited"
    /\ exitCode = 0
    /\ Len(articles.items) = MaxArticles
    /\ written = StageWrites(articles.items)
====
